---- MODULE Spec2Model ----
(***************************************************************************)
(* fastfind: the bounded-concurrency directory walker.                     *)
(*                                                                         *)
(* The repository holds three generations of the walker, all driven by an  *)
(* errgroup with SetLimit(limit) and a buffered records channel:           *)
(*   "unix"    Finder.walk returning nothing, src/walk_windows.go:384-460  *)
(*             (the !windows build of the current generation)              *)
(*   "windows" Finder.walk / Finder._walk, src/walk_windows.go:79-159      *)
(*   "legacy"  Finder.walk returning error, src/walk_unix.go:19-74, driven *)
(*             by the main of src/fastfind.go:84-167                       *)
(* The current main is src/unnamed/part_001:89-212.                        *)
(***************************************************************************)
EXTENDS Naturals, Integers, Sequences, FiniteSets, Bags, TLC

\* ---------------------------------------------------------------- bounds
MaxLimit == 4
MaxCap == 1

\* The raw enumerator's sizes, scaled down: fileInfoHeaderSize (the offset of
\* FileName in fileFullDirInformation), dirQueryInitialBuffer (64 * 1024) and
\* dirQueryMaxBuffer (1 << 30; 1 << 20 in the error-returning generation).
HeaderSize == 2
InitialBuffer == 4
MaxBuffer == 16

\* Entries of a directory listed by the raw enumerator, beside ".".
MaxEntries == 2

\* Longest string given to quote.
MaxLen == 3

\* The batch parser on its own: the longest chunk parsed, and half the range
\* of the uint32 fields NextEntryOffset and FileNameLength, scaled down (a
\* chunk is shorter than that: dirQueryMaxBuffer is 1 << 30).
MaxChunk == 6
HalfWord == 8

\* ------------------------------------------------- the directory tree (input)
\* Paths are node numbers; Root is the start path given on the command line.
Root == 1

Nodes == 1 .. 7

\* os.FileMode type bits of every node, as the enumerator reports them.
Mode ==
  [n \in Nodes |->
     CASE n \in {1, 2, 4, 6} -> {"ModeDir"}
       [] n = 7 -> {"ModeSymlink"}
       [] OTHER -> {}]

Dirs == {n \in Nodes : Mode[n] = {"ModeDir"}}

\* What ReadDir / enumerateDirectory returns for a directory, in its order.
Entries ==
  [d \in Dirs |->
     CASE d = 1 -> <<2, 3, 6>>
       [] d = 2 -> <<4>>
       [] d = 4 -> <<5>>
       [] d = 6 -> <<7>>]

Parent ==
  [n \in Nodes \ {Root} |->
     CHOOSE d \in Dirs : \E i \in 1 .. Len(Entries[d]) : Entries[d][i] = n]

RECURSIVE Ancestors(_)
Ancestors(n) == IF n = Root THEN {} ELSE {Parent[n]} \cup Ancestors(Parent[n])

Descendants(d) == {n \in Nodes : d \in Ancestors(n)}

\* The current generation (both builds) and the error-returning one.
Variants == {"unix", "windows"}

LegacyVariants == {"legacy"}

VARIABLES
  variant,    \* which generation of walk/main is built
  limit,      \* const limit: the errgroup's SetLimit
  cap,        \* capacity of the records channel
  stat,       \* finder.stat (getSize in the legacy generation)
  enumFail,   \* directories whose ReadDir / enumerateDirectory fails
  openFail,   \* directories whose open (root) or relative open (child) fails
  statFail,   \* nodes whose Fstat / Fstatat / GetFileInformationByHandle fails
  mainPc,     \* position of main
  exitCode,   \* process exit status, -1 while running
  ok,         \* main's `ok` declared before the receive loop
  loopOk,     \* the `ok` declared by `record, ok := <-records` in the loop body
  sawErr,     \* history: some received Record carried errors
  closerPc,   \* position of the goroutine `g.Wait(); close(records)`
  sem,        \* len(g.sem): admission slots held
  wg,         \* g.wg counter
  gErr,       \* g.err != nil
  ctxDone,    \* ctx.Done() is closed
  signalled,  \* a signal arrived and cancel() was called
  tstate,     \* per directory: the goroutine admitted for it (none/run/done)
  stack,      \* per goroutine: its stack of walk frames
  handle,     \* per directory: state of its Directory Handle
  records,    \* the records channel's buffer
  closed,     \* the records channel is closed
  panicked,   \* a send on / close of a closed channel happened
  lateGo,     \* history: a task was admitted after the closer's g.Wait() returned
  gaveUp,     \* history: goroutines one of whose walks returned on ctx.Done()
  sent        \* history: bag of the Records sent on the channel

\* The raw batched-query enumerator (enumerateDirectory over
\* NtQueryDirectoryFile), run on its own.
VARIABLES
  eGen,       \* which enumerateDirectory: "current" (walk_windows.go) or "legacy" (fastfind.go)
  dirList,    \* the directory's entries as the platform holds them
  eSmall,     \* how the platform reports a too-small buffer: "zero" bytes or a "partial" record
  eFault,     \* what else the platform does wrong: "none", "torn" batches, "fail"
  ePc,        \* "idle", "query" (top of the for loop), "done" (returned)
  bufSize,    \* bufSize / len(buffer)
  restart,    \* the restart flag
  scan,       \* the platform's scan position in dirList
  got,        \* entries: the names appended so far
  eErr,       \* the error returned: "none", "large", "failed", "truncated"
  sawBad,     \* history: the parser met a malformed record
  grows       \* history: how often the buffer was grown

enumVars ==
  <<eGen, dirList, eSmall, eFault, ePc, bufSize, restart, scan, got, eErr, sawBad,
    grows>>

\* type2rune and attributesToMode, run on their own.
VARIABLES
  attrs,      \* the FileAttributes given to attributesToMode
  fmode,      \* the os.FileMode type bits given to type2rune
  rune,       \* the rune type2rune returned
  tPc         \* "idle", "attrs" (before attributesToMode), "mode", "done"

typeVars == <<attrs, fmode, rune, tPc>>

\* quote, run on its own.
VARIABLES
  qin,        \* the string given to quote
  qout,       \* the string quote returned
  qPc         \* "idle", "call", "done"

quoteVars == <<qin, qout, qPc>>

\* The parse loop of enumerateDirectory over one batch, run on its own with
\* arbitrary header fields.
VARIABLES
  pBuild,     \* width of Go's int in the build: "int64" or "int32"
  pN,         \* len(chunk)
  pOff,       \* offset
  pPc,        \* "idle", "loop" (at the loop test), "done", "panic"
  pErr,       \* the loop ended with the "truncated data" error
  pHdrAt,     \* history: offset of the last header read, -1 if none
  pNameBytes  \* history: bytes of the last name read after that header, -1 if none

parseVars == <<pBuild, pN, pOff, pPc, pErr, pHdrAt, pNameBytes>>

pureVars == <<enumVars, typeVars, quoteVars, parseVars>>

cfgVars == <<variant, limit, cap, stat, enumFail, openFail, statFail>>
mainVars == <<mainPc, exitCode, ok, loopOk, sawErr>>
groupVars == <<sem, wg, gErr, tstate>>
chanVars == <<records, closed, panicked, sent>>
histVars == <<lateGo, gaveUp>>
walkVars ==
  <<cfgVars, mainVars, groupVars, chanVars, closerPc, ctxDone, signalled,
    stack, handle, histVars>>
vars == <<walkVars, pureVars>>

\* ------------------------------------------------------------ pure helpers
\* type2rune: switch on t.Type(); anything unmatched is 'f'.
type2rune(t) ==
  CASE t = {"ModeDir"} -> "d"
    [] t = {"ModeSymlink"} -> "l"
    [] t = {"ModeDevice"} -> "D"
    [] t = {"ModeNamedPipe"} -> "p"
    [] t = {"ModeSocket"} -> "S"
    [] t = {"ModeCharDevice"} -> "c"
    [] t = {"ModeIrregular"} -> "?"
    [] OTHER -> "f"

\* Mutant of attributesToMode: the directory attribute is looked at before the
\* reparse-point attribute.
attributesToModeDirectoryFirst(a) ==
  IF "FILE_ATTRIBUTE_DIRECTORY" \in a THEN {"ModeDir"}
  ELSE IF "FILE_ATTRIBUTE_REPARSE_POINT" \in a THEN {"ModeSymlink"}
  ELSE IF "FILE_ATTRIBUTE_DEVICE" \in a THEN {"ModeDevice"} ELSE {}

\* attributesToMode: a reparse point is a symlink whatever else it is.
attributesToMode(a) ==
  IF "FILE_ATTRIBUTE_REPARSE_POINT" \in a THEN {"ModeSymlink"}
  ELSE (IF "FILE_ATTRIBUTE_DIRECTORY" \in a THEN {"ModeDir"} ELSE {})
       \cup (IF "FILE_ATTRIBUTE_DEVICE" \in a THEN {"ModeDevice"} ELSE {})

\* The FileAttributes NtQueryDirectoryFile reports for every node: the symlink
\* is a directory symlink (reparse point and directory).
Attributes ==
  [n \in Nodes |->
     CASE Mode[n] = {"ModeDir"} -> {"FILE_ATTRIBUTE_DIRECTORY"}
       [] Mode[n] = {"ModeSymlink"} ->
            {"FILE_ATTRIBUTE_REPARSE_POINT", "FILE_ATTRIBUTE_DIRECTORY"}
       [] OTHER -> {"FILE_ATTRIBUTE_ARCHIVE"}]

\* The mode of entry n as the walker's enumeration hands it over: entry.Type()
\* of ReadDir, or attributesToMode of the entry's FileAttributes.
EntryMode(n) ==
  IF variant = "windows" THEN attributesToMode(Attributes[n]) ELSE Mode[n]

Record(p, t, e) == [path |-> p, type |-> t, errs |-> e]

NoRecord == Record(0, "-", <<>>)

Frame(d, pc, i, r) == [dir |-> d, pc |-> pc, idx |-> i, rec |-> r]

\* ------------------------------------------------------------------- Init
\* The failure patterns walked: one node of the tree whose calls fail, with the
\* calls that fail on it (a failed open leaves nothing else to call).
Calls == {"open", "enum", "stat"}

Faults ==
  {f \in [node : Nodes, calls : SUBSET Calls] :
     /\ f.calls = {} => f.node = Root
     /\ f.node \notin Dirs => f.calls = {"stat"}
     /\ "open" \in f.calls => f.calls = {"open"}}

Failing(f, c) == IF c \in f.calls THEN {f.node} ELSE {}

Configured(vs) ==
  /\ variant \in vs
  /\ limit \in 1 .. MaxLimit
  /\ cap \in 1 .. MaxCap
  /\ \E f \in Faults :
       /\ enumFail = Failing(f, "enum")
       /\ openFail = Failing(f, "open")
       /\ statFail = Failing(f, "stat")
  /\ stat \in BOOLEAN
  /\ statFail = {} => stat
  \* the windows walker stats only the root handle
  /\ variant = "windows" => statFail \subseteq {Root}

Started ==
  /\ mainPc = "open"
  /\ exitCode = -1
  /\ ok = TRUE
  /\ loopOk = TRUE
  /\ sawErr = FALSE
  /\ closerPc = "idle"
  /\ sem = 0
  /\ wg = 0
  /\ gErr = FALSE
  /\ ctxDone = FALSE
  /\ signalled = FALSE
  /\ tstate = [d \in Dirs |-> "none"]
  /\ stack = [d \in Dirs |-> <<>>]
  /\ handle = [d \in Dirs |-> "none"]
  /\ records = <<>>
  /\ closed = FALSE
  /\ panicked = FALSE
  /\ lateGo = FALSE
  /\ gaveUp = {}
  /\ sent = EmptyBag

\* The enumerator is not run on its own.
EnumIdle ==
  /\ eGen = "current"
  /\ dirList = <<>>
  /\ eSmall = "zero"
  /\ eFault = "none"
  /\ ePc = "idle"
  /\ bufSize = 0
  /\ restart = FALSE
  /\ scan = 0
  /\ got = <<>>
  /\ eErr = "none"
  /\ sawBad = FALSE
  /\ grows = 0

\* type2rune is not run on its own.
TypeIdle ==
  /\ attrs = {}
  /\ fmode = {}
  /\ rune = "-"
  /\ tPc = "idle"

\* quote is not run on its own.
QuoteIdle ==
  /\ qin = <<>>
  /\ qout = <<>>
  /\ qPc = "idle"

\* The batch parser is not run on its own.
ParseIdle ==
  /\ pBuild = "int64"
  /\ pN = 0
  /\ pOff = 0
  /\ pPc = "idle"
  /\ pErr = FALSE
  /\ pHdrAt = -1
  /\ pNameBytes = -1

PureIdle == EnumIdle /\ TypeIdle /\ QuoteIdle /\ ParseIdle

Init == Configured(Variants) /\ Started /\ PureIdle

InitLegacy == Configured(LegacyVariants) /\ Started /\ PureIdle

\* ------------------------------------------------------------ walk frames
StatErr(n, wanted) == IF wanted /\ n \in statFail THEN <<"stat">> ELSE <<>>

\* Mutant of EnumErr: the enumeration error is not put on the Record.
EnumErrDropped(d) == <<>>

EnumErr(d) == IF d \in enumFail THEN <<"enum">> ELSE <<>>

OpenErr(n, ty) == IF ty = "d" /\ n \in openFail THEN <<"open">> ELSE <<>>

\* Mutant of EnterWalk: the walk starts its child loop without first sending
\* the directory's own Record.
EnterWalkChildrenFirst(d) ==
  IF d \in enumFail
    THEN Frame(d, "unwind", 0, NoRecord)
    ELSE Frame(d, "loop", 1, NoRecord)

\* The frame of a walk of directory d up to its first blocking point:
\* unix stats the handle when finder.stat, calls ReadDir and stands at the
\* select that sends d's own Record; windows _walk enumerates and stands at
\* the same select; legacy calls ReadDir and returns its error or starts the
\* child loop (it sends no Record for d itself).
EnterWalk(d) ==
  CASE variant = "unix" ->
         Frame(d, "sendSelf", 0, Record(d, "d", StatErr(d, stat) \o EnumErr(d)))
    [] variant = "windows" ->
         Frame(d, "sendSelf", 0, Record(d, "d", EnumErr(d)))
    [] OTHER ->
         IF d \in enumFail
           THEN Frame(d, "unwind", 0, NoRecord)
           ELSE Frame(d, "loop", 1, NoRecord)

\* The frame the root goroutine starts with: on windows Finder.walk first calls
\* GetFileInformationByHandle (whatever finder.stat is) and, when that fails,
\* stands at a select sending a Record that carries only that error.
EnterRoot(d) ==
  IF variant = "windows" /\ d \in statFail
    THEN Frame(d, "sendStatErr", 0, Record(d, "d", <<"stat">>))
    ELSE EnterWalk(d)

\* The Record the child loop builds for entry n, with the errors of the
\* relative open (directories) and of the per-child stat.
ChildStat(ty) ==
  CASE variant = "unix" -> stat /\ ty # "d"
    [] variant = "legacy" -> stat /\ ty = "f"
    [] OTHER -> FALSE

ChildRecord(n) ==
  LET ty == type2rune(EntryMode(n))
  IN Record(n, ty, OpenErr(n, ty) \o StatErr(n, ChildStat(ty)))

\* Mutant of Descends: every directory entry is descended into, opened or not.
DescendsAnyDirectory(r) == r.type = "d"

\* `record.Type == 'd' && len(record.Errors) == 0`
Descends(r) == r.type = "d" /\ r.errs = <<>>

\* defer f.Close() / defer windows.CloseHandle(dir)
CloseHandle(h) == IF h = "open" THEN "closed" ELSE "twice"

\* --------------------------------------------------------------- errgroup
\* Mutant of TryGoAdmits: the slot is granted whatever the semaphore holds.
TryGoAlwaysAdmits(held, lim) == TRUE

\* TryGo's `select { case g.sem <- token{}: default: return false }`
TryGoAdmits(held, lim) == held < lim

\* Mutant of WgAdd: the goroutine is started without being counted in wg.
WgAddForgotten(n) == n

\* wg.Add(1) in Go and TryGo
WgAdd(n) == n + 1

\* Mutant of WalksInline: a refused subdirectory is not walked by the caller,
\* which waits at the descend point for a slot.
WalksInlineNever(went) == FALSE

\* `if !went { finder.walk(ctx, childPath, handle) }`
WalksInline(went) == ~went

\* g.done(): `<-g.sem; g.wg.Done()`, run when the goroutine's function returned;
\* a non-nil error is kept by errOnce, which cancels ctx.
GroupDone(t, err) ==
  /\ tstate' = [tstate EXCEPT ![t] = "done"]
  /\ sem' = sem - 1
  /\ wg' = wg - 1
  /\ gErr' = (gErr \/ err)
  /\ ctxDone' = (ctxDone \/ err)

\* ------------------------------------------------------------ the channel
\* `finder.out <- record` chosen by the select: needs room in the buffer; a send
\* on a closed channel panics and the process dies.
CanSend == Len(records) < cap \/ closed

Send(r) ==
  IF closed
    THEN /\ panicked' = TRUE
         /\ UNCHANGED <<records, closed, sent>>
    ELSE /\ records' = Append(records, r)
         /\ sent' = sent (+) SetToBag({r})
         /\ UNCHANGED <<closed, panicked>>

Alive == exitCode = -1 /\ ~panicked

\* ------------------------------------------------------------- walk steps
Top(t) == stack[t][Len(stack[t])]

SetTop(t, f) == [stack EXCEPT ![t] = [@ EXCEPT ![Len(@)] = f]]

Running(t) == Alive /\ tstate[t] = "run" /\ stack[t] # <<>>

\* Mutant of Resume: the caller skips the entry after the one walked inline.
ResumeSkipsEntry(f, err) ==
  IF err THEN [f EXCEPT !.pc = "unwind"]
         ELSE [f EXCEPT !.pc = "loop", !.idx = @ + 2, !.rec = NoRecord]

\* How the caller's frame goes on when the nested walk returned: legacy
\* propagates a non-nil error, every generation otherwise takes the next entry.
Resume(f, err) ==
  IF err THEN [f EXCEPT !.pc = "unwind"]
         ELSE [f EXCEPT !.pc = "loop", !.idx = @ + 1, !.rec = NoRecord]

\* walk returns from the top frame of t: its deferred close runs (closes), the
\* frame is popped, and either the caller resumes or the goroutine is done.
Return(t, err, closes) ==
  LET s == stack[t]
      n == Len(s)
  IN /\ handle' = IF closes THEN [handle EXCEPT ![s[n].dir] = CloseHandle(@)]
                            ELSE handle
     /\ IF n = 1
          THEN /\ stack' = [stack EXCEPT ![t] = <<>>]
               /\ GroupDone(t, err)
          ELSE /\ stack' = [stack EXCEPT ![t] =
                              Append(SubSeq(s, 1, n - 2), Resume(s[n - 1], err))]
               /\ UNCHANGED <<groupVars, ctxDone>>

\* The value walk returns when it observed ctx.Done(): legacy returns
\* ctx.Err(), the other generations return nothing.
CancelErr == variant = "legacy"

\* windows Finder.walk, lines 91-95: the select sending the stat-error Record.
SendStatErr(t) ==
  /\ Running(t)
  /\ Top(t).pc = "sendStatErr"
  /\ CanSend
  /\ Send(Top(t).rec)
  /\ stack' = SetTop(t, EnterWalk(Top(t).dir))
  /\ UNCHANGED <<pureVars, cfgVars, mainVars, groupVars, closerPc, ctxDone, signalled,
                 handle, histVars>>

\* windows Finder.walk, line 93-94: ctx.Done() chosen; walk returns before
\* _walk (whose defer closes the handle) was ever called.
CancelStatErr(t) ==
  /\ Running(t)
  /\ Top(t).pc = "sendStatErr"
  /\ ctxDone
  /\ Return(t, FALSE, FALSE)
  /\ gaveUp' = gaveUp \cup {t}
  /\ UNCHANGED <<pureVars, cfgVars, mainVars, chanVars, closerPc, signalled, lateGo>>

\* The select sending the directory's own Record, send chosen; after it the
\* walk returns if the enumeration had failed, else starts the child loop.
SendSelf(t) ==
  /\ Running(t)
  /\ Top(t).pc = "sendSelf"
  /\ CanSend
  /\ Send(Top(t).rec)
  /\ IF Top(t).dir \in enumFail
       THEN Return(t, FALSE, TRUE)
       ELSE /\ stack' = SetTop(t, Frame(Top(t).dir, "loop", 1, NoRecord))
            /\ UNCHANGED <<groupVars, ctxDone, handle>>
  /\ UNCHANGED <<pureVars, cfgVars, mainVars, closerPc, signalled, histVars>>

\* Any select of walk with ctx.Done() chosen: walk returns (deferred close).
CancelSend(t) ==
  /\ Running(t)
  /\ Top(t).pc \in {"sendSelf", "sendChild"}
  /\ ctxDone
  /\ Return(t, CancelErr, TRUE)
  /\ gaveUp' = gaveUp \cup {t}
  /\ UNCHANGED <<pureVars, cfgVars, mainVars, chanVars, closerPc, signalled, lateGo>>

\* The child loop ran out of entries: walk returns nil.
LoopEnd(t) ==
  /\ Running(t)
  /\ Top(t).pc = "loop"
  /\ Top(t).idx > Len(Entries[Top(t).dir])
  /\ Return(t, FALSE, TRUE)
  /\ UNCHANGED <<pureVars, cfgVars, mainVars, chanVars, closerPc, signalled, histVars>>

\* Where the child loop goes once the entry's Record is built: the current
\* generations descend at once into a directory that opened and send every
\* other Record; legacy sends every Record first.
AfterBuild(r) ==
  IF variant # "legacy" /\ Descends(r) THEN "descend" ELSE "sendChild"

\* One entry of the child loop up to its next blocking point: build the Record,
\* open a directory entry relative to the parent, stat a non-directory.
LoopEntry(t) ==
  /\ Running(t)
  /\ Top(t).pc = "loop"
  /\ Top(t).idx <= Len(Entries[Top(t).dir])
  /\ LET f == Top(t)
         n == Entries[f.dir][f.idx]
         r == ChildRecord(n)
     IN /\ handle' = IF r.type = "d" /\ n \notin openFail
                       THEN [handle EXCEPT ![n] = "open"]
                       ELSE handle
        /\ stack' = SetTop(t, [f EXCEPT !.pc = AfterBuild(r), !.rec = r])
  /\ UNCHANGED <<pureVars, cfgVars, mainVars, groupVars, chanVars, closerPc, ctxDone,
                 signalled, histVars>>

\* Where the child loop goes after the child's Record was sent: legacy now
\* descends into a directory that opened; otherwise the next entry.
AfterSend(f) ==
  IF variant = "legacy" /\ Descends(f.rec)
    THEN [f EXCEPT !.pc = "descend"]
    ELSE [f EXCEPT !.pc = "loop", !.idx = @ + 1, !.rec = NoRecord]

\* The select sending a child's Record, send chosen.
SendChild(t) ==
  /\ Running(t)
  /\ Top(t).pc = "sendChild"
  /\ CanSend
  /\ Send(Top(t).rec)
  /\ stack' = SetTop(t, AfterSend(Top(t)))
  /\ UNCHANGED <<pureVars, cfgVars, mainVars, groupVars, closerPc, ctxDone, signalled,
                 handle, histVars>>

\* finder.group.TryGo granted a slot: the subdirectory becomes a goroutine of
\* its own and the parent takes its next entry.
Descend(t) ==
  /\ Running(t)
  /\ Top(t).pc = "descend"
  /\ TryGoAdmits(sem, limit)
  /\ LET f == Top(t)
         n == f.rec.path
     IN /\ sem' = sem + 1
        /\ wg' = WgAdd(wg)
        /\ tstate' = [tstate EXCEPT ![n] = "run"]
        /\ stack' = [SetTop(t, [f EXCEPT !.pc = "loop", !.idx = @ + 1,
                                         !.rec = NoRecord])
                       EXCEPT ![n] = <<EnterWalk(n)>>]
        /\ lateGo' = (lateGo \/ closerPc \in {"close", "done"})
  /\ UNCHANGED <<pureVars, cfgVars, mainVars, chanVars, closerPc, ctxDone, signalled,
                 handle, gErr, gaveUp>>

\* Mutant of InlineCall: a refused subdirectory is dropped and the caller
\* takes its next entry.
InlineCallDropped(s) ==
  [s EXCEPT ![Len(s)] = [@ EXCEPT !.pc = "loop", !.idx = @ + 1, !.rec = NoRecord]]

\* Mutant of InlineCall: a subdirectory walked inline gets no Record of its
\* own, only an admitted one does.
InlineCallSkipsRecord(s) ==
  Append([s EXCEPT ![Len(s)] = [@ EXCEPT !.pc = "call"]],
         Frame(s[Len(s)].rec.path, "loop", 1, NoRecord))

\* The nested call finder.walk(ctx, childPath, handle) on the caller's stack s:
\* the caller waits in "call" under the frame of the subdirectory's walk.
InlineCall(s) ==
  Append([s EXCEPT ![Len(s)] = [@ EXCEPT !.pc = "call"]],
         EnterWalk(s[Len(s)].rec.path))

\* TryGo refused (`!went`): the same goroutine walks the subdirectory as a
\* nested call; the caller's frame waits in "call" below the new frame.
Inline(t) ==
  /\ Running(t)
  /\ Top(t).pc = "descend"
  /\ WalksInline(TryGoAdmits(sem, limit))
  /\ stack' = [stack EXCEPT ![t] = InlineCall(@)]
  /\ UNCHANGED <<pureVars, cfgVars, mainVars, groupVars, chanVars, closerPc, ctxDone,
                 signalled, handle, histVars>>

\* legacy: walk returns a non-nil error (ReadDir failed, or the nested walk
\* returned one); the deferred close runs.
Unwind(t) ==
  /\ Running(t)
  /\ Top(t).pc = "unwind"
  /\ Return(t, TRUE, TRUE)
  /\ UNCHANGED <<pureVars, cfgVars, mainVars, chanVars, closerPc, signalled, histVars>>

\* One step of a walk that every generation has.
WalkStep(t) ==
  \/ CancelSend(t)
  \/ LoopEnd(t)
  \/ LoopEntry(t)
  \/ SendChild(t)
  \/ Descend(t)
  \/ Inline(t)

\* One step of the goroutine admitted for directory t, current generation.
TaskStep(t) ==
  \/ SendStatErr(t)
  \/ CancelStatErr(t)
  \/ SendSelf(t)
  \/ WalkStep(t)

\* One step of the goroutine admitted for directory t, legacy generation.
TaskStepLegacy(t) ==
  \/ WalkStep(t)
  \/ Unwind(t)

\* ------------------------------------------------------------------- main
\* fail(err): print and os.Exit(ExitError)
ExitError == 1

ExitOk == 0

\* root, err := openDirHandle(path); if err != nil { fail(err) }
OpenRoot ==
  /\ Alive
  /\ mainPc = "open"
  /\ IF Root \in openFail
       THEN /\ mainPc' = "exited"
            /\ exitCode' = ExitError
            /\ UNCHANGED handle
       ELSE /\ mainPc' = "go"
            /\ handle' = [handle EXCEPT ![Root] = "open"]
            /\ UNCHANGED exitCode
  /\ UNCHANGED <<pureVars, cfgVars, ok, loopOk, sawErr, groupVars, chanVars, closerPc,
                 ctxDone, signalled, stack, histVars>>

\* g.Go(func() error { finder.walk(ctx, path, root); ... }): waits for a slot.
GoRoot ==
  /\ Alive
  /\ mainPc = "go"
  /\ sem < limit
  /\ sem' = sem + 1
  /\ wg' = WgAdd(wg)
  /\ tstate' = [tstate EXCEPT ![Root] = "run"]
  /\ stack' = [stack EXCEPT ![Root] = <<EnterRoot(Root)>>]
  /\ mainPc' = "spawn"
  /\ UNCHANGED <<pureVars, cfgVars, exitCode, ok, loopOk, sawErr, gErr, chanVars, closerPc,
                 ctxDone, signalled, handle, histVars>>

\* go func() { g.Wait(); close(records) }()
SpawnCloser ==
  /\ Alive
  /\ mainPc = "spawn"
  /\ closerPc' = "wait"
  /\ mainPc' = "consume"
  /\ UNCHANGED <<pureVars, cfgVars, exitCode, ok, loopOk, sawErr, groupVars, chanVars,
                 ctxDone, signalled, stack, handle, histVars>>

\* The closer's g.Wait(): returns once wg is zero, and cancels ctx.
CloserWait ==
  /\ Alive
  /\ closerPc = "wait"
  /\ wg = 0
  /\ closerPc' = "close"
  /\ ctxDone' = TRUE
  /\ UNCHANGED <<pureVars, cfgVars, mainVars, groupVars, chanVars, signalled, stack,
                 handle, histVars>>

\* The closer's close(records); closing a closed channel panics.
CloserClose ==
  /\ Alive
  /\ closerPc = "close"
  /\ closerPc' = "done"
  /\ closed' = TRUE
  /\ panicked' = closed
  /\ UNCHANGED <<pureVars, cfgVars, mainVars, groupVars, records, sent, ctxDone,
                 signalled, stack, handle, histVars>>

\* What the statement `ok = false` of the receive loop does to the `ok` main
\* declared before the loop: nothing, for it assigns the `ok` that
\* `record, ok := <-records` declares in the loop body.
OkAfterRecord(o, r) == o

\* record, ok := <-records with a Record in the buffer, and the loop body.
Receive ==
  /\ Alive
  /\ mainPc = "consume"
  /\ records # <<>>
  /\ LET r == Head(records)
     IN /\ records' = Tail(records)
        /\ loopOk' = (r.errs = <<>>)
        /\ ok' = IF variant = "legacy" THEN ok ELSE OkAfterRecord(ok, r)
        /\ sawErr' = (sawErr \/ r.errs # <<>>)
  /\ UNCHANGED <<pureVars, cfgVars, mainPc, exitCode, groupVars, closed, panicked, sent,
                 closerPc, ctxDone, signalled, stack, handle, histVars>>

\* record, ok := <-records on the closed and drained channel: break.
EndLoop ==
  /\ Alive
  /\ mainPc = "consume"
  /\ records = <<>>
  /\ closed
  /\ mainPc' = "wait"
  /\ loopOk' = FALSE
  /\ UNCHANGED <<pureVars, cfgVars, exitCode, ok, sawErr, groupVars, chanVars, closerPc,
                 ctxDone, signalled, stack, handle, histVars>>

\* The end of main: err = g.Wait(); fail(err) if non-nil; the current main then
\* exits ExitError if !ok; otherwise status zero.
ExitStatus(err, o) ==
  IF err THEN ExitError
  ELSE IF variant # "legacy" /\ ~o THEN ExitError
  ELSE ExitOk

MainWait ==
  /\ Alive
  /\ mainPc = "wait"
  /\ wg = 0
  /\ ctxDone' = TRUE
  /\ mainPc' = "exited"
  /\ exitCode' = ExitStatus(gErr, ok)
  /\ UNCHANGED <<pureVars, cfgVars, ok, loopOk, sawErr, groupVars, chanVars, closerPc,
                 signalled, stack, handle, histVars>>

\* A signal arrives: the handler goroutine calls cancel().
Signal ==
  /\ Alive
  /\ ~signalled
  /\ signalled' = TRUE
  /\ ctxDone' = TRUE
  /\ UNCHANGED <<pureVars, cfgVars, mainVars, groupVars, chanVars, closerPc, stack,
                 handle, histVars>>

\* The steps of main (the consumer) and of the closer goroutine.
MainProc ==
  \/ OpenRoot
  \/ GoRoot
  \/ SpawnCloser
  \/ Receive
  \/ EndLoop
  \/ MainWait

CloserProc ==
  \/ CloserWait
  \/ CloserClose

MainStep == MainProc \/ CloserProc

Next ==
  \/ MainStep
  \/ Signal
  \/ \E t \in Dirs : TaskStep(t)

Spec == Init /\ [][Next]_vars

\* Every step but the arrival of a signal.
Progress ==
  \/ MainStep
  \/ \E t \in Dirs : TaskStep(t)

\* The Go scheduler keeps running some runnable goroutine (main, the closer or
\* a task) as long as there is one; a signal may or may not arrive.
Fairness == WF_vars(Progress)

\* With finder.stat off a run goes as one without stat failures, so the fair
\* runs are taken with it on.
FairInit == Init /\ stat

FairSpec == FairInit /\ [][Next]_vars /\ Fairness

\* The error-returning generation: the same main and errgroup around its walk.
NextLegacy ==
  \/ MainStep
  \/ Signal
  \/ \E t \in Dirs : TaskStepLegacy(t)

SpecLegacy == InitLegacy /\ [][NextLegacy]_vars

\* ------------------------------------------- the raw batched-query enumerator
\* The walk is not running: one fixed configuration, nothing started.
WalkIdle ==
  /\ variant = "windows"
  /\ limit = 1
  /\ cap = 1
  /\ stat = TRUE
  /\ enumFail = {}
  /\ openFail = {}
  /\ statFail = {}
  /\ Started

\* FileNameLength values (bytes of UTF-16) of the entries listed.
NameBytes == {2, 6, 12, 16}

DirEntry(nm, b) == [name |-> nm, bytes |-> b]

\* The name of the i-th entry listed.
EntryName(i) == <<"a", "b", "c", "d">>[i]

\* The directories enumerated: up to MaxEntries entries named a, b, ..., with
\* or without a leading "." entry.
DirLists ==
  UNION {
    {dots \o [i \in 1 .. k |-> DirEntry(EntryName(i), bs[i])] :
       bs \in [1 .. k -> NameBytes], dots \in {<<>>, <<DirEntry(".", 2)>>}} :
    k \in 0 .. MaxEntries}

InitEnum ==
  /\ WalkIdle
  /\ TypeIdle
  /\ QuoteIdle
  /\ ParseIdle
  /\ eGen \in {"current", "legacy"}
  /\ dirList \in DirLists
  /\ eSmall \in {"zero", "partial"}
  /\ eFault \in {"none", "torn", "fail"}
  /\ ePc = "query"
  /\ bufSize = (IF InitialBuffer < HeaderSize + 2 THEN HeaderSize + 2
                                                 ELSE InitialBuffer)
  /\ restart = TRUE
  /\ scan = 0
  /\ got = <<>>
  /\ eErr = "none"
  /\ sawBad = FALSE
  /\ grows = 0

\* One fileFullDirInformation record of a batch, by the fields the parser reads.
Info(e, nxt) == [name |-> e.name, len |-> e.bytes, next |-> nxt]

RecordSize(e) == HeaderSize + e.bytes

RECURSIVE BatchSize(_, _)
BatchSize(p, j) ==
  IF j = 0 THEN 0 ELSE BatchSize(p, j - 1) + RecordSize(dirList[p + j])

\* The records of entries p+1 .. p+j packed into one batch.
Pack(p, j) ==
  [i \in 1 .. j |->
     Info(dirList[p + i], IF i = j THEN 0 ELSE RecordSize(dirList[p + i]))]

Answer(k, n, recs, adv) == [kind |-> k, n |-> n, recs |-> recs, adv |-> adv]

\* What NtQueryDirectoryFile may answer at scan position p for a buffer of b
\* bytes: STATUS_NO_MORE_FILES at the end; when the next entry does not fit,
\* zero bytes or b bytes holding the record cut short (its header declaring
\* the full name length); otherwise a batch of the next entries that fit - or,
\* from a platform that tears its batches, such a batch short of its last
\* bytes; a failing platform may answer with any other status.
Answers(p, b) ==
  (IF eFault = "fail" THEN {Answer("fail", 0, <<>>, 0)} ELSE {})
  \cup
  (IF p = Len(dirList)
     THEN {Answer("eof", 0, <<>>, 0)}
   ELSE IF RecordSize(dirList[p + 1]) > b
     THEN IF eSmall = "zero"
            THEN {Answer("small", 0, <<>>, 0)}
            ELSE {Answer("data", b, Pack(p, 1), 0)}
   ELSE LET fit == {j \in 1 .. Len(dirList) - p : BatchSize(p, j) <= b}
        IN {Answer("data", BatchSize(p, j), Pack(p, j), j) : j \in fit}
           \cup
           (IF eFault = "torn"
              THEN UNION {{Answer("data", BatchSize(p, j) - cut, Pack(p, j), j) :
                             cut \in 1 .. RecordSize(dirList[p + j]) - 1} :
                          j \in fit}
              ELSE {}))

\* ntQueryDirectory's classification of the status and iosb.Information.
ntQueryDirectory(a) ==
  CASE a.kind = "eof" -> "EOF"
    [] a.kind = "fail" -> "errno"
    [] a.kind = "small" -> "errDirBufferTooSmall"
    [] a.kind = "data" -> IF a.n = 0 THEN "errDirBufferTooSmall" ELSE "nil"

\* The inner loop of enumerateDirectory over chunk := buffer[:n], from the
\* k-th record at the given offset: the names appended, and whether it stopped
\* at a record whose header or name overruns the chunk.
\* The test before the header is read: len(chunk[offset:]) < fileInfoHeaderSize.
HeaderFits(n, offset) == ~(n - offset < HeaderSize)

\* The test before the name is read:
\* nameBytes < 0 || nameBytes > len(chunk[offset:])-fileInfoHeaderSize.
NameFits(n, offset, nameBytes) ==
  ~(nameBytes < 0 \/ nameBytes > (n - offset) - HeaderSize)

RECURSIVE ParseChunk(_, _, _, _, _)
ParseChunk(n, recs, k, offset, acc) ==
  IF ~(offset < n) THEN [names |-> acc, bad |-> FALSE]
  ELSE IF ~HeaderFits(n, offset) THEN [names |-> acc, bad |-> TRUE]
  ELSE LET info == recs[k]
           app == IF info.name \notin {".", ".."} THEN Append(acc, info.name)
                                                  ELSE acc
       IN IF ~NameFits(n, offset, info.len)
            THEN [names |-> acc, bad |-> TRUE]
          ELSE IF info.next = 0 THEN [names |-> app, bad |-> FALSE]
          ELSE ParseChunk(n, recs, k + 1, offset + info.next, app)

\* What a malformed record does to the call: the current generation returns
\* the "truncated data" error, the legacy one breaks out of the batch.
TruncatedErr(bad) == IF bad /\ eGen = "current" THEN "truncated" ELSE "none"

ScanAt == IF restart THEN 0 ELSE scan

Queried(kind) ==
  {a \in Answers(ScanAt, bufSize) : ntQueryDirectory(a) = kind}

\* err == io.EOF: break, return entries, nil.
EnumEOF ==
  /\ ePc = "query"
  /\ Queried("EOF") # {}
  /\ ePc' = "done"
  /\ scan' = ScanAt
  /\ UNCHANGED <<walkVars, typeVars, quoteVars, parseVars, eGen, dirList, eSmall, eFault, bufSize, restart, got,
                 eErr, sawBad, grows>>

\* Mutant of Doubled: the buffer grows by one header at a time.
GrownByHeader(b) ==
  IF b + HeaderSize > MaxBuffer THEN MaxBuffer ELSE b + HeaderSize

\* bufSize *= 2; if bufSize > dirQueryMaxBuffer { bufSize = dirQueryMaxBuffer }
Doubled(b) == IF b * 2 > MaxBuffer THEN MaxBuffer ELSE b * 2

\* errDirBufferTooSmall below the maximum: double the buffer and query again.
EnumGrow ==
  /\ ePc = "query"
  /\ Queried("errDirBufferTooSmall") # {}
  /\ bufSize < MaxBuffer
  /\ bufSize' = Doubled(bufSize)
  /\ grows' = grows + 1
  /\ scan' = ScanAt
  /\ UNCHANGED <<walkVars, typeVars, quoteVars, parseVars, eGen, dirList, eSmall, eFault, ePc, restart, got,
                 eErr, sawBad>>

\* errDirBufferTooSmall at the maximum: "entry larger than ... bytes".
EnumTooLarge ==
  /\ ePc = "query"
  /\ Queried("errDirBufferTooSmall") # {}
  /\ bufSize >= MaxBuffer
  /\ ePc' = "done"
  /\ eErr' = "large"
  /\ got' = <<>>
  /\ scan' = ScanAt
  /\ UNCHANGED <<walkVars, typeVars, quoteVars, parseVars, eGen, dirList, eSmall, eFault, bufSize, restart,
                 sawBad, grows>>

\* Any other error of the query: "NtQueryDirectoryFile failed".
EnumFailed ==
  /\ ePc = "query"
  /\ Queried("errno") # {}
  /\ ePc' = "done"
  /\ eErr' = "failed"
  /\ got' = <<>>
  /\ scan' = ScanAt
  /\ UNCHANGED <<walkVars, typeVars, quoteVars, parseVars, eGen, dirList, eSmall, eFault, bufSize, restart,
                 sawBad, grows>>

\* Mutant of RestartAfter: the restart flag is left as it was.
RestartKept(r) == r

\* `restart = false` once a query has returned data.
RestartAfter(r) == FALSE

\* A batch of n bytes: restart = false and the batch is parsed.
EnumBatch ==
  /\ ePc = "query"
  /\ \E a \in Queried("nil") :
       LET parsed == ParseChunk(a.n, a.recs, 1, 0, got)
           err == TruncatedErr(parsed.bad)
       IN /\ restart' = RestartAfter(restart)
          /\ scan' = ScanAt + a.adv
          /\ sawBad' = (sawBad \/ parsed.bad)
          /\ eErr' = err
          /\ ePc' = IF err = "none" THEN "query" ELSE "done"
          /\ got' = IF err = "none" THEN parsed.names ELSE <<>>
  /\ UNCHANGED <<walkVars, typeVars, quoteVars, parseVars, eGen, dirList, eSmall, eFault, bufSize,
                 grows>>

NextEnum ==
  \/ EnumEOF
  \/ EnumGrow
  \/ EnumTooLarge
  \/ EnumFailed
  \/ EnumBatch

SpecEnum == InitEnum /\ [][NextEnum]_vars

\* ----------------------------------------------- the batch parser on its own
\* The values of a uint32 field, scaled.
Words == 0 .. 2 * HalfWord - 1

\* int(u) of a uint32 u, and an int sum x, in the build's int: a 32-bit int
\* wraps to negative from half the uint32 range on.
ToInt(x) ==
  IF pBuild = "int32" /\ x >= HalfWord THEN x - 2 * HalfWord ELSE x

InitParse ==
  /\ WalkIdle
  /\ EnumIdle
  /\ TypeIdle
  /\ QuoteIdle
  /\ pBuild \in {"int64", "int32"}
  /\ pN \in 0 .. MaxChunk
  /\ pOff = 0
  /\ pPc = "loop"
  /\ pErr = FALSE
  /\ pHdrAt = -1
  /\ pNameBytes = -1

parseRest == <<walkVars, enumVars, typeVars, quoteVars>>

\* `for offset < len(chunk)` is false: the batch is parsed.
ParseEnd ==
  /\ pPc = "loop"
  /\ ~(pOff < pN)
  /\ pPc' = "done"
  /\ UNCHANGED <<parseRest, pBuild, pN, pOff, pErr, pHdrAt, pNameBytes>>

\* chunk[offset:] with a negative offset: slice bounds out of range.
ParsePanic ==
  /\ pPc = "loop"
  /\ pOff < pN
  /\ pOff < 0
  /\ pPc' = "panic"
  /\ UNCHANGED <<parseRest, pBuild, pN, pOff, pErr, pHdrAt, pNameBytes>>

\* Fewer bytes than a header remain: "truncated data".
ParseShortHeader ==
  /\ pPc = "loop"
  /\ pOff < pN
  /\ pOff >= 0
  /\ ~HeaderFits(pN, pOff)
  /\ pPc' = "done"
  /\ pErr' = TRUE
  /\ UNCHANGED <<parseRest, pBuild, pN, pOff, pHdrAt, pNameBytes>>

\* The header at offset is read; its FileNameLength overruns the chunk (or is
\* negative as an int): "truncated data".
ParseOverrun ==
  /\ pPc = "loop"
  /\ pOff < pN
  /\ pOff >= 0
  /\ HeaderFits(pN, pOff)
  /\ \E len \in Words :
       /\ ~NameFits(pN, pOff, ToInt(len))
       /\ pHdrAt' = pOff
       /\ pNameBytes' = -1
  /\ pPc' = "done"
  /\ pErr' = TRUE
  /\ UNCHANGED <<parseRest, pBuild, pN, pOff>>

\* The header and the name are read; NextEntryOffset is 0: break.
ParseLast ==
  /\ pPc = "loop"
  /\ pOff < pN
  /\ pOff >= 0
  /\ HeaderFits(pN, pOff)
  /\ \E len \in Words :
       /\ NameFits(pN, pOff, ToInt(len))
       /\ pHdrAt' = pOff
       /\ pNameBytes' = ToInt(len)
  /\ pPc' = "done"
  /\ UNCHANGED <<parseRest, pBuild, pN, pOff, pErr>>

\* The header and the name are read; offset += int(info.NextEntryOffset).
ParseNext ==
  /\ pPc = "loop"
  /\ pOff < pN
  /\ pOff >= 0
  /\ HeaderFits(pN, pOff)
  /\ \E len \in Words, next \in Words \ {0} :
       /\ NameFits(pN, pOff, ToInt(len))
       /\ pHdrAt' = pOff
       /\ pNameBytes' = ToInt(len)
       /\ pOff' = ToInt(pOff + ToInt(next))
  /\ UNCHANGED <<parseRest, pBuild, pN, pPc, pErr>>

NextParse ==
  \/ ParseEnd
  \/ ParsePanic
  \/ ParseShortHeader
  \/ ParseOverrun
  \/ ParseLast
  \/ ParseNext

SpecParse == InitParse /\ [][NextParse]_vars

\* -------------------------------------------------- type2rune on its own
\* The type bits of os.ModeType.
TypeBits ==
  {"ModeDir", "ModeSymlink", "ModeNamedPipe", "ModeSocket", "ModeDevice",
   "ModeCharDevice", "ModeIrregular"}

\* The FileAttributes bits attributesToMode reads, and one it does not.
AttrBits ==
  {"FILE_ATTRIBUTE_REPARSE_POINT", "FILE_ATTRIBUTE_DIRECTORY",
   "FILE_ATTRIBUTE_DEVICE", "FILE_ATTRIBUTE_ARCHIVE"}

\* Either an entry as ReadDir reports it (any type bits), or an entry of the
\* raw enumerator with its FileAttributes.
InitType ==
  /\ WalkIdle
  /\ EnumIdle
  /\ QuoteIdle
  /\ ParseIdle
  /\ rune = "-"
  /\ \/ tPc = "mode" /\ attrs = {} /\ fmode \in SUBSET TypeBits
     \/ tPc = "attrs" /\ attrs \in SUBSET AttrBits /\ fmode = {}

\* mode: attributesToMode(info.FileAttributes)
AttributesToMode ==
  /\ tPc = "attrs"
  /\ fmode' = attributesToMode(attrs)
  /\ tPc' = "mode"
  /\ UNCHANGED <<walkVars, enumVars, quoteVars, parseVars, attrs, rune>>

\* Type: type2rune(entry.Type())
Type2rune ==
  /\ tPc = "mode"
  /\ rune' = type2rune(fmode)
  /\ tPc' = "done"
  /\ UNCHANGED <<walkVars, enumVars, quoteVars, parseVars, attrs, fmode>>

NextType ==
  \/ AttributesToMode
  \/ Type2rune

SpecType == InitType /\ [][NextType]_vars

\* ------------------------------------------------------ quote on its own
\* Strings are sequences of characters: DQ the double quote, BS the backslash,
\* LF, CR, TAB, COMMA, and the letters n, t, r.
Chars == {"DQ", "BS", "LF", "CR", "TAB", "COMMA", "n", "t", "r"}

Strings == UNION {[1 .. k -> Chars] : k \in 0 .. MaxLen}

\* strings.ContainsAny(s, "\"\n\r\t,")
ContainsAny(s, cs) == \E i \in 1 .. Len(s) : s[i] \in cs

\* Mutant of Escape: the backslash is not escaped.
EscapeKeepsBackslash(c) ==
  CASE c = "DQ" -> <<"BS", "DQ">>
    [] c = "LF" -> <<"BS", "n">>
    [] c = "TAB" -> <<"BS", "t">>
    [] c = "CR" -> <<"BS", "r">>
    [] OTHER -> <<c>>

\* quote_replacer's pairs, for one character.
Escape(c) ==
  CASE c = "DQ" -> <<"BS", "DQ">>
    [] c = "LF" -> <<"BS", "n">>
    [] c = "TAB" -> <<"BS", "t">>
    [] c = "CR" -> <<"BS", "r">>
    [] c = "BS" -> <<"BS", "BS">>
    [] OTHER -> <<c>>

\* quote_replacer.Replace(s)
RECURSIVE Replace(_)
Replace(s) == IF s = <<>> THEN <<>> ELSE Escape(Head(s)) \o Replace(Tail(s))

quote(s) ==
  IF ~ContainsAny(s, {"DQ", "LF", "CR", "TAB", "COMMA"})
    THEN s
    ELSE <<"DQ">> \o Replace(s) \o <<"DQ">>

InitQuote ==
  /\ WalkIdle
  /\ EnumIdle
  /\ TypeIdle
  /\ ParseIdle
  /\ qin \in Strings
  /\ qout = <<>>
  /\ qPc = "call"

\* A path or error text is rendered: quote(s).
Quote ==
  /\ qPc = "call"
  /\ qout' = quote(qin)
  /\ qPc' = "done"
  /\ UNCHANGED <<walkVars, enumVars, typeVars, parseVars, qin>>

NextQuote == Quote

SpecQuote == InitQuote /\ [][NextQuote]_vars

\* ================================================================ claims
\* Number of Records sent so far whose path is n.
SentFor(n) == {r \in BagToSet(sent) : r.path = n}

RECURSIVE Copies(_)
Copies(S) ==
  IF S = {} THEN 0
  ELSE LET r == CHOOSE x \in S : TRUE IN CopiesIn(r, sent) + Copies(S \ {r})

PathCount(n) == Copies(SentFor(n))

\* The receive loop of main has ended: the channel was closed and drained.
Drained == mainPc \in {"wait", "exited"}

\* C1: in a tree whose directories all open and enumerate, without
\* cancellation, no path is ever sent twice, and when the consumer's loop has
\* ended every path of the tree, the root included, was sent exactly once and
\* nothing is left in the channel - for every limit and interleaving (the
\* current unix walker, the code the claim is about).
C1_EveryPathExactlyOnce ==
  (variant = "unix" /\ enumFail = {} /\ openFail = {} /\ ~signalled) =>
    /\ \A n \in Nodes : PathCount(n) <= 1
    /\ Drained => /\ records = <<>>
                  /\ \A n \in Nodes : PathCount(n) = 1

C1_Witness ==
  /\ variant = "unix" /\ enumFail = {} /\ openFail = {} /\ ~signalled
  /\ limit = 1
  /\ mainPc = "exited"
  /\ \A n \in Nodes : PathCount(n) = 1

\* C2: in the current walkers, whenever a Record of a node other than the root
\* has been sent, the Record of its parent directory has been sent already
\* (each step sends at most one Record, so the parent's was strictly earlier).
C2_ParentBeforeChild ==
  variant # "legacy" =>
    \A n \in Nodes \ {Root} : PathCount(n) > 0 => PathCount(Parent[n]) > 0

\* A grandchild's Record sent while its directory runs as an admitted task of
\* its own, beside the task of the parent.
C2_Witness ==
  /\ variant # "legacy"
  /\ PathCount(5) > 0
  /\ tstate[4] = "run"
  /\ tstate[2] = "run"

\* The run is over: main has exited and, if the root opened, the channel is
\* closed and every admitted goroutine has returned from all its walks.
Finished ==
  /\ mainPc = "exited"
  /\ Root \notin openFail =>
       /\ closed
       /\ records = <<>>
       /\ \A t \in Dirs : tstate[t] # "run" /\ stack[t] = <<>>
       /\ tstate[Root] = "done"

\* C3: for every limit and channel capacity, with or without a signal, no
\* state short of the exit leaves every goroutine blocked (some step other
\* than a signal is enabled), and with main receiving and the scheduler fair
\* the run ends: every admitted task is done, the channel is closed, the
\* consumer loop has ended.
C3_NoDeadlockAndTermination ==
  /\ [](Alive => ENABLED Progress)
  /\ <>Finished

\* The budget is exhausted, the channel is full, and a task stands at a send.
C3_Witness ==
  /\ sem = limit
  /\ Len(records) = cap
  /\ \E t \in Dirs : Running(t) /\ Top(t).pc \in {"sendSelf", "sendChild"}
  /\ ~ctxDone

Admitted == {t \in Dirs : tstate[t] = "run"}

\* C4: the goroutines admitted by Go (the root) or TryGo and not yet finished
\* are never more than limit, each holds one slot of the semaphore, and a slot
\* is given back only by the step in which a goroutine's outermost walk
\* returns. (The program's limit is 512; the model takes 1 .. MaxLimit.)
C4_AdmittedWithinLimit ==
  /\ [](Cardinality(Admitted) <= limit /\ sem = Cardinality(Admitted))
  /\ [][sem' < sem =>
          /\ sem' = sem - 1
          /\ \E t \in Dirs : /\ tstate[t] = "run" /\ tstate'[t] = "done"
                             /\ Len(stack[t]) = 1 /\ stack'[t] = <<>>]_vars

\* Every slot is held and a task asks for one more.
C4_Witness ==
  /\ limit = 2
  /\ sem = 2
  /\ Root \in Admitted
  /\ \E t \in Dirs : Running(t) /\ Top(t).pc = "descend"

AtDescend(t) == Running(t) /\ Top(t).pc = "descend"

\* C5: a task at the descend point can always take a step (TryGo does not
\* wait); when no slot is free that step is the nested walk of the
\* subdirectory on the same stack, with the handle opened for it, and it
\* changes neither the slots held nor the admitted tasks; a frame under the
\* top of a stack waits in "call" for the walk above it and does not change
\* until that walk has returned; the return of a nested walk frees no slot and
\* moves the caller to its next entry.
C5_RefusalWalksInline ==
  /\ [](\A t \in Dirs : AtDescend(t) => ENABLED (Descend(t) \/ Inline(t)))
  /\ [](\A t \in Dirs : \A k \in 1 .. Len(stack[t]) - 1 :
          /\ stack[t][k].pc = "call"
          /\ stack[t][k + 1].dir = stack[t][k].rec.path)
  /\ [][\A t \in Dirs :
          (AtDescend(t) /\ sem >= limit /\ stack'[t] # stack[t]) =>
            LET k == Len(stack[t])
                n == Top(t).rec.path
            IN /\ Len(stack'[t]) = k + 1
               /\ stack'[t][k + 1].dir = n
               /\ stack'[t][k] = [Top(t) EXCEPT !.pc = "call"]
               /\ handle[n] = "open" /\ handle' = handle
               /\ sem' = sem /\ wg' = wg /\ tstate' = tstate]_vars
  /\ [][\A t \in Dirs : \A k \in 1 .. Len(stack[t]) - 1 :
          IF Len(stack'[t]) > k
            THEN stack'[t][k] = stack[t][k]
            ELSE /\ Len(stack'[t]) = k => k = Len(stack[t]) - 1
                 /\ Len(stack'[t]) = k =>
                      /\ sem' = sem /\ wg' = wg /\ tstate' = tstate
                      /\ stack'[t][k].dir = stack[t][k].dir
                      /\ stack'[t][k].pc = "loop"
                      /\ stack'[t][k].idx = stack[t][k].idx + 1]_vars

\* Under limit 1 the root task walks a subdirectory's subdirectory inline.
C5_Witness ==
  /\ limit = 1
  /\ sem = 1
  /\ Len(stack[Root]) = 3
  /\ stack[Root][3].pc = "loop"

\* C6: the channel is closed once, by the closer, only when no admitted
\* goroutine is running and every stack is empty, the root's among them; no
\* send ever meets the closed channel (nothing panics); and no task is admitted
\* once the closer's g.Wait() has returned.
C6_ClosedAfterAllReturned ==
  /\ ~panicked
  /\ ~lateGo
  /\ closed <=> closerPc = "done"
  /\ closerPc \in {"close", "done"} =>
       /\ wg = 0
       /\ tstate[Root] = "done"
       /\ \A t \in Dirs : tstate[t] # "run" /\ stack[t] = <<>>

\* Closed after a run in which directory 2 ran as a task of its own and walked
\* its subdirectory 4 inline.
C6_Witness ==
  /\ closed
  /\ tstate[Root] = "done"
  /\ tstate[2] = "done"
  /\ tstate[4] = "none"
  /\ handle[4] = "closed"

\* The walk has ended: the closer's g.Wait() has returned.
WalkEnded == closerPc \in {"close", "done"}

\* C7: no Directory Handle is closed twice, and once the walk has ended every
\* handle that was opened (the root's by openDirHandle, a child's by the
\* relative open of the child loop) has been closed - on normal completion,
\* after an enumeration failure and after every return taken on ctx.Done().
C7_HandlesClosedOnce ==
  /\ \A d \in Dirs : handle[d] # "twice"
  /\ WalkEnded => \A d \in Dirs : handle[d] # "open"

Range(q) == {q[i] : i \in 1 .. Len(q)}

\* The Records sent for directory d that carry its enumeration error.
EnumRecords(d) == {r \in SentFor(d) : "enum" \in Range(r.errs)}

\* C8: without cancellation, for a directory d whose enumeration fails: every
\* Record sent for d has kind directory, at most one of them carries the
\* enumeration error (in the unix walker d has no other Record at all), no
\* Record of a descendant of d is ever sent and no descendant is opened; and
\* when the consumer's loop has ended exactly one Record for d carrying the
\* enumeration error was sent, and every node outside d's subtree was sent
\* exactly once. (The windows root whose GetFileInformationByHandle fails too
\* has one more Record, sent by Finder.walk before _walk enumerates.)
C8_EnumerationFailureContained ==
  ~signalled =>
    \A d \in enumFail :
      /\ \A r \in SentFor(d) : r.type = "d"
      /\ Copies(EnumRecords(d)) <= 1
      /\ variant = "unix" => PathCount(d) <= 1
      /\ \A n \in Descendants(d) :
           PathCount(n) = 0 /\ (n \in Dirs => handle[n] = "none")
      /\ Drained =>
           /\ Copies(EnumRecords(d)) = 1
           /\ variant = "unix" => PathCount(d) = 1
           /\ \A n \in Nodes \ ({d} \cup Descendants(d)) : PathCount(n) = 1

\* Directory 2 failed to enumerate, the run is over, and its sibling
\* directory 6 was walked down to its entry 7.
C8_Witness ==
  /\ ~signalled
  /\ enumFail = {2}
  /\ mainPc = "exited"
  /\ Copies(EnumRecords(2)) = 1
  /\ PathCount(7) = 1

\* The README's type letter of a node of this tree.
Legend(n) ==
  CASE Mode[n] = {"ModeDir"} -> "d"
    [] Mode[n] = {"ModeSymlink"} -> "l"
    [] Mode[n] = {} -> "f"

\* Children whose relative open fails (directory entries), or whose stat
\* fails (non-directory entries of the unix walker with finder.stat on).
FailedChildren ==
  {n \in Nodes \ {Root} :
     \/ n \in Dirs /\ n \in openFail
     \/ n \notin Dirs /\ n \in statFail /\ stat /\ variant = "unix"}

Siblings(n) == Range(Entries[Parent[n]])

Walked(n) ==
  \/ tstate[n] # "none"
  \/ \E t \in Dirs : \E k \in 1 .. Len(stack[t]) : stack[t][k].dir = n

\* C9: without cancellation, a child whose relative open or stat fails is
\* never sent twice, every Record sent for it has the child's own kind
\* (directory for a failed open) and carries exactly that error, it is never
\* walked (no task, no frame, no handle), no Record of a descendant is sent;
\* and when the consumer's loop has ended it was sent exactly once and so was
\* every other entry of its parent.
C9_ChildFailureContained ==
  ~signalled =>
    \A n \in FailedChildren :
      /\ PathCount(n) <= 1
      /\ \A r \in SentFor(n) :
           /\ r.type = Legend(n)
           /\ n \in openFail => r.type = "d"
           /\ r.errs = <<IF n \in Dirs THEN "open" ELSE "stat">>
      /\ n \in Dirs => handle[n] = "none" /\ ~Walked(n)
      /\ \A m \in Descendants(n) : PathCount(m) = 0
      /\ Drained =>
           /\ PathCount(n) = 1
           /\ \A m \in Siblings(n) : PathCount(m) = 1

\* Directory 2 failed to open; it was sent with the error and the parent went
\* on to its entries 3 and 6.
C9_Witness ==
  /\ ~signalled
  /\ openFail = {2}
  /\ Drained
  /\ Record(2, "d", <<"open">>) \in BagToSet(sent)
  /\ PathCount(3) = 1
  /\ PathCount(6) = 1

\* C10: when main (the current one) has exited: if a received Record carried
\* errors the exit status is not zero; if none did, the root opened and no
\* signal arrived, it is zero.
C10_ExitStatusReflectsErrors ==
  mainPc = "exited" =>
    /\ sawErr => exitCode # ExitOk
    /\ (~sawErr /\ Root \notin openFail /\ ~signalled) => exitCode = ExitOk

\* Some path of a tree without failures was never sent: a task gave up its
\* subtree.
Truncated == \E n \in Nodes : PathCount(n) = 0

\* C11: when main has exited after a signal made a task abandon work (in a
\* tree without failures some path was never sent), the g.Wait() of main
\* returned an error and the exit status is not zero.
C11_CancellationReported ==
  (/\ mainPc = "exited"
   /\ signalled
   /\ enumFail = {} /\ openFail = {} /\ statFail = {}
   /\ Truncated) =>
    /\ gErr
    /\ exitCode # ExitOk

\* C12: a goroutine one of whose walks returned on ctx.Done() at a select
\* sending a Record does nothing more than unwind: every later step that moves
\* its stack pops a frame, sends no Record, opens no Directory Handle, admits
\* no goroutine and enters no further walk - the frames that had called the
\* cancelled walk inline included.
C12_CancelledTaskOnlyUnwinds ==
  [][\A t \in gaveUp :
       stack'[t] # stack[t] =>
         /\ Len(stack'[t]) < Len(stack[t])
         /\ sent' = sent
         /\ \A d \in Dirs : handle'[d] = "open" => handle[d] = "open"
         /\ \A d \in Dirs : tstate[d] = "none" => tstate'[d] = "none"]_vars

\* The walk of directory d has been entered (as a goroutine or inline), now or
\* earlier.
Begun(d) == Walked(d) \/ handle[d] \in {"closed", "twice"}

\* C13: whenever a signal has arrived and the walk of a directory has not yet
\* been entered, no Record for that directory is ever sent from then on,
\* whatever room the channel has.
C13_NoRecordForLateWalk ==
  [](\A d \in Dirs : (signalled /\ ~Begun(d)) => [](PathCount(d) = 0))

\* The names enumerateDirectory owes its caller: every entry but "." and "..".
RECURSIVE NamesOf(_)
NamesOf(es) ==
  IF es = <<>> THEN <<>>
  ELSE (IF Head(es).name \in {".", ".."} THEN <<>> ELSE <<Head(es).name>>)
         \o NamesOf(Tail(es))

FitsMaxBuffer == \A i \in 1 .. Len(dirList) : RecordSize(dirList[i]) <= MaxBuffer

\* C14: on a platform that does nothing wrong but report too-small buffers -
\* with zero bytes or with a record cut short - if every entry fits the
\* maximum buffer, enumerateDirectory returns without error and with every
\* entry of the directory, complete and in order.
C14_BufferGrowthTransparent ==
  (ePc = "done" /\ eFault = "none" /\ FitsMaxBuffer) =>
    /\ eErr = "none"
    /\ got = NamesOf(dirList)

\* C15: when enumerateDirectory has returned after its parser met a record
\* whose header or name overruns the bytes retrieved, it returned an error.
C15_MalformedBatchIsError ==
  (ePc = "done" /\ sawBad) => eErr # "none"

\* A path the walk gets to: the root opened and every directory above the path
\* opened and enumerated.
Reached(n) ==
  /\ Root \notin openFail
  /\ \A a \in Ancestors(n) : a \notin enumFail /\ a \notin openFail

\* How many Records the tree and the failure pattern alone give path n: one if
\* the walk gets to it (the windows root whose GetFileInformationByHandle
\* fails has a second one, carrying that error), none otherwise.
Owed(n) ==
  IF ~Reached(n) THEN 0
  ELSE IF variant = "windows" /\ n = Root /\ Root \in statFail THEN 2
  ELSE 1

\* C16: without cancellation, the multiset of (path, kind) pairs sent is fixed
\* by the tree and the failure pattern: no path is ever sent more often than
\* they give it, every Record has the kind of its path, and when the
\* consumer's loop has ended every path was sent exactly as often as they give
\* it - whatever the limit, the interleaving, and which subdirectories ran as
\* goroutines or inline.
C16_SameMultisetEveryRun ==
  ~signalled =>
    \A n \in Nodes :
      /\ PathCount(n) <= Owed(n)
      /\ \A r \in SentFor(n) : r.type = Legend(n)
      /\ Drained => PathCount(n) = Owed(n)

\* A finished run with a failing directory in which directory 2 ran as a
\* goroutine of its own and directory 6 was walked inline.
C16_Witness ==
  /\ ~signalled
  /\ mainPc = "exited"
  /\ enumFail = {4}
  /\ limit = 2
  /\ tstate[2] = "done"
  /\ tstate[6] = "none"
  /\ handle[6] = "closed"
  /\ PathCount(7) = 1
  /\ PathCount(5) = 0

\* The type bits of the kinds the platform reports; a character device has
\* ModeDevice and ModeCharDevice both.
PlatformModes ==
  {{}, {"ModeDir"}, {"ModeSymlink"}, {"ModeDevice"},
   {"ModeDevice", "ModeCharDevice"}, {"ModeNamedPipe"}, {"ModeSocket"},
   {"ModeIrregular"}}

\* The README's type letter of each kind.
LegendRune(m) ==
  CASE m = {} -> "f"
    [] m = {"ModeDir"} -> "d"
    [] m = {"ModeSymlink"} -> "l"
    [] m = {"ModeDevice"} -> "D"
    [] m = {"ModeDevice", "ModeCharDevice"} -> "c"
    [] m = {"ModeNamedPipe"} -> "p"
    [] m = {"ModeSocket"} -> "S"
    [] m = {"ModeIrregular"} -> "?"

\* C17: for an entry of each kind the platform reports, type2rune returns the
\* README's letter of that kind - c for a character device - and so f for
\* regular files only.
C17_TypeFollowsLegend ==
  (tPc = "done" /\ fmode \in PlatformModes) => rune = LegendRune(fmode)

\* Reading a rendered field back: a field that starts with a double quote
\* loses its two quotes and every backslash pair becomes the character it
\* stands for; any other field is the text itself.
Unescaped(c) ==
  CASE c = "n" -> "LF"
    [] c = "t" -> "TAB"
    [] c = "r" -> "CR"
    [] OTHER -> c

RECURSIVE Unescape(_)
Unescape(o) ==
  IF o = <<>> THEN <<>>
  ELSE IF Head(o) = "BS" /\ Len(o) >= 2
    THEN <<Unescaped(o[2])>> \o Unescape(SubSeq(o, 3, Len(o)))
  ELSE <<Head(o)>> \o Unescape(Tail(o))

Decode(o) ==
  IF o # <<>> /\ Head(o) = "DQ" THEN Unescape(SubSeq(o, 2, Len(o) - 1)) ELSE o

\* The characters of s that the quoted form escapes.
Escaped(s) == {i \in 1 .. Len(s) : s[i] \in {"DQ", "BS", "CR", "LF", "TAB"}}

\* C18: quote(s) is s itself exactly when s has no double quote, tab, comma,
\* CR or LF; otherwise it starts and ends with a double quote, holds no raw
\* CR, LF or TAB, and is longer than s by the two quotes and one backslash for
\* each double quote, backslash, CR, LF and TAB of s; and in both cases reading
\* the field back gives s, so no two strings are rendered alike.
C18_QuoteUnambiguous ==
  qPc = "done" =>
    /\ (qout = qin) <=> ~ContainsAny(qin, {"DQ", "TAB", "COMMA", "CR", "LF"})
    /\ qout # qin =>
         /\ Head(qout) = "DQ"
         /\ qout[Len(qout)] = "DQ"
         /\ ~ContainsAny(qout, {"CR", "LF", "TAB"})
         /\ Len(qout) = Len(qin) + 2 + Cardinality(Escaped(qin))
    /\ Decode(qout) = qin

\* A string with a backslash, a letter n and a double quote was rendered.
C18_Witness ==
  /\ qPc = "done"
  /\ qin = <<"BS", "n", "DQ">>
  /\ qout = <<"DQ", "BS", "BS", "n", "BS", "DQ", "DQ">>

\* Directories whose own handle is stat-ed when their walk is entered, and the
\* stat fails: with finder.stat any directory walked by the unix walker, the
\* root in the windows walker.
StatFailedDirs ==
  {d \in Dirs \cap statFail : stat /\ Reached(d) /\ d \notin openFail}

\* C19: without cancellation, a directory whose own stat fails at the entry of
\* its walk is never sent more than once, its Record carries the stat error,
\* followed by the enumeration error if the enumeration fails too; and when the
\* consumer's loop has ended it was sent exactly once and, if it enumerated,
\* every entry of it was sent.
C19_StatFailureOnOwnRecord ==
  ~signalled =>
    \A d \in StatFailedDirs :
      /\ PathCount(d) <= 1
      /\ \A r \in SentFor(d) : r = Record(d, "d", <<"stat">> \o EnumErr(d))
      /\ Drained =>
           /\ PathCount(d) = 1
           /\ d \notin enumFail => \A n \in Range(Entries[d]) : PathCount(n) = 1

\* C20: in the error-returning walker, without a signal, a directory whose
\* enumeration fails does not cancel the context while any goroutine is still
\* walking, and when the consumer's loop has ended every path outside that
\* directory's subtree (the root aside, which this walker never sends) was
\* sent exactly once.
C20_LegacyEnumFailureContained ==
  (variant = "legacy" /\ ~signalled) =>
    \A d \in enumFail :
      /\ ctxDone => Admitted = {}
      /\ Drained =>
           \A n \in Nodes \ ({Root, d} \cup Descendants(d)) : PathCount(n) = 1

\* The platform reports the buffer too small: the next entry's record does not
\* fit it.
NextTooBig ==
  /\ ePc = "query"
  /\ ScanAt < Len(dirList)
  /\ RecordSize(dirList[ScanAt + 1]) > bufSize

RECURSIVE Pow2(_)
Pow2(k) == IF k = 0 THEN 1 ELSE 2 * Pow2(k - 1)

\* log2(max / initial), rounded up: the doublings that take the initial size
\* to the maximum.
MaxGrowths ==
  CHOOSE k \in 0 .. MaxBuffer :
    /\ InitialBuffer * Pow2(k) >= MaxBuffer
    /\ \A j \in 0 .. k - 1 : InitialBuffer * Pow2(j) < MaxBuffer

\* C21: the buffer size starts at the initial size and stays within the
\* maximum; it changes only when the platform reports the buffer too small,
\* and then to its double capped at the maximum, with the entries collected,
\* the restart flag and the scan position as they were and the query issued
\* again; a too-small report at the maximum ends the enumeration with an
\* error; and the buffer is grown at most log2(max / initial) times.
C21_BufferDoublesToMaximum ==
  /\ [](ePc # "idle" =>
          /\ InitialBuffer <= bufSize /\ bufSize <= MaxBuffer
          /\ grows = 0 => bufSize = InitialBuffer
          /\ grows <= MaxGrowths)
  /\ [][bufSize' # bufSize =>
          /\ NextTooBig
          /\ bufSize' = (IF 2 * bufSize <= MaxBuffer THEN 2 * bufSize
                                                      ELSE MaxBuffer)
          /\ grows' = grows + 1
          /\ got' = got /\ restart' = restart /\ scan' = ScanAt
          /\ ePc' = "query"]_vars
  /\ [][(eGen = "current" /\ NextTooBig /\ bufSize >= MaxBuffer) =>
          (ePc' = "done" /\ eErr' # "none")]_vars

\* The buffer was doubled up to the maximum and the entry still did not fit.
C21_Witness ==
  /\ ePc = "done"
  /\ grows = MaxGrowths
  /\ bufSize = MaxBuffer
  /\ eErr = "large"

\* C22: the restart flag is set at the first query and stays set only until
\* the first query that returned data (so through growth retries before it);
\* once cleared it is never set again. While the platform neither fails nor
\* tears a batch, the entries collected are exactly the entries the scan has
\* passed, each once and in order, without "." and ".."; and the call returns
\* without error only when the scan is at the end of the directory, with every
\* entry of it.
C22_RestartOnlyUntilFirstData ==
  /\ [](ePc # "idle" => (restart => scan = 0 /\ got = <<>>))
  /\ [][restart' => restart]_vars
  /\ [][(ePc = "query" /\ got' # got /\ eErr' = "none") => ~restart']_vars
  /\ []((ePc # "idle" /\ ~sawBad /\ eErr = "none") =>
          /\ got = NamesOf(SubSeq(dirList, 1, scan))
          /\ \A i \in 1 .. Len(got) : got[i] \notin {".", ".."}
          /\ \A i, j \in 1 .. Len(got) : got[i] = got[j] => i = j)
  /\ []((ePc = "done" /\ eErr = "none" /\ ~sawBad) =>
          scan = Len(dirList) /\ got = NamesOf(dirList))
  /\ [][(ePc = "query" /\ ePc' = "done" /\ ScanAt < Len(dirList)) =>
          eErr' # "none"]_vars

\* A directory of "." and two entries read in two batches after one growth:
\* the second entry did not fit the first buffer.
C22_Witness ==
  /\ ePc = "done"
  /\ eErr = "none"
  /\ eFault = "none"
  /\ grows = 1
  /\ ~restart
  /\ Len(dirList) = 3
  /\ got = <<"a", "b">>

\* The header read last, and the name read after it, lie within the bytes the
\* query returned.
ParseReadsWithin ==
  /\ pHdrAt # -1 => (0 <= pHdrAt /\ pHdrAt + HeaderSize <= pN)
  /\ pNameBytes # -1 =>
       (0 <= pNameBytes /\ pHdrAt + HeaderSize + pNameBytes <= pN)

\* An iteration that returns to the loop test has moved the offset forward.
ParseAdvances == pPc' = "loop" => (pOff' > pOff /\ pN' - pOff' < pN - pOff)

\* C23: while parsing a batch, every header the parser reads lies wholly
\* before the end of the retrieved bytes, every name it reads lies within
\* them, and the loop terminates whatever the next-record offsets and name
\* lengths are: each iteration that continues moves the offset forward, so
\* the bytes left to parse shrink.
C23_ParseStaysInBatchAndTerminates ==
  /\ []ParseReadsWithin
  /\ [][ParseAdvances]_vars

\* The same on a build whose int is 64 bits wide.
ParseSafeOnInt64 ==
  /\ [](pBuild = "int64" => ParseReadsWithin /\ pPc # "panic")
  /\ [][pBuild = "int64" => ParseAdvances]_vars

\* C24: the walker descends (as an admitted task or inline) only into an entry
\* whose Record has kind d and no error, which is a directory whose relative
\* open succeeded and whose handle is open; every walk frame is of such a
\* directory; and an entry that is a symbolic link (on windows a reparse
\* point, directory attribute or not) gets only Records of kind l and is
\* never opened, so nothing beneath it is enumerated or emitted.
C24_DescendsOnlyIntoOpenedDirectories ==
  /\ \A t \in Dirs : \A k \in 1 .. Len(stack[t]) :
       LET f == stack[t][k]
       IN /\ f.dir \in Dirs
          /\ f.dir # Root => f.dir \notin openFail
          /\ f.pc \in {"descend", "call"} =>
               /\ f.rec.type = "d"
               /\ f.rec.errs = <<>>
               /\ f.rec.path \in Dirs \ openFail
               /\ handle[f.rec.path] = "open"
  /\ \A d \in Dirs \ {Root} :
       (tstate[d] # "none" \/ handle[d] # "none") => d \notin openFail
  /\ \A n \in Nodes : \A r \in SentFor(n) :
       /\ Mode[n] = {"ModeSymlink"} => r.type = "l"
       /\ r.type = "d" => n \in Dirs
  /\ \A n \in Nodes \ {Root} :
       PathCount(n) > 0 => Parent[n] \in Dirs \ openFail

C24_Witness ==
  /\ variant = "windows"
  /\ "FILE_ATTRIBUTE_DIRECTORY" \in Attributes[7]
  /\ mainPc = "exited"
  /\ openFail = {2}
  /\ PathCount(2) = 1
  /\ PathCount(4) = 0
  /\ PathCount(6) = 1
  /\ SentFor(7) = {Record(7, "l", <<>>)}
  /\ PathCount(7) = 1

\* Records, sent or built and held by a walk frame, that carry a stat error.
StatDerived ==
  {r \in BagToSet(sent)
          \cup UNION {{stack[t][k].rec : k \in 1 .. Len(stack[t])} : t \in Dirs} :
     \E i \in 1 .. Len(r.errs) : r.errs[i] = "stat"}

\* C25: with metadata collection disabled the walker makes no stat call, on a
\* directory handle or on a child, so no Record, sent or about to be sent,
\* carries a stat-derived error.
C25_NoStatWhenDisabled == ~stat => StatDerived = {}

\* The same of the unix walker alone.
NoStatWhenDisabledUnix == (variant = "unix" /\ ~stat) => StatDerived = {}

\* Who holds the handle of directory d: the walk frames walking d, the frame
\* of the parent between the relative open and the TryGo / inline call, and
\* main between openDirHandle and g.Go.
Holders(d) ==
  UNION {{<<t, k>> : k \in {j \in 1 .. Len(stack[t]) :
                              \/ stack[t][j].dir = d
                              \/ /\ stack[t][j].pc = "descend"
                                 /\ stack[t][j].rec.path = d}} : t \in Dirs}
    \cup (IF d = Root /\ mainPc = "go" THEN {<<0, 0>>} ELSE {})

\* Exactly one holder of every open handle, none of any other.
HeldByOne(d) ==
  /\ handle[d] = "open" => Cardinality(Holders(d)) = 1
  /\ handle[d] # "open" => Holders(d) = {}

\* C26: at every moment each open Directory Handle is held by exactly one
\* walk frame of one task - the parent's until it hands the handle to the
\* TryGo task or to the inline call, that walk's from then on - and no frame
\* holds (so none enumerates, stats or opens relative to) a handle that is
\* closed or was never opened.
C26_HandleHeldByExactlyOneFrame == \A d \in Dirs : HeldByOne(d)

\* The same of the unix walker, and of the windows walker's _walk (every
\* handle but the start directory's).
HeldByOneUnix == variant = "unix" => \A d \in Dirs : HeldByOne(d)

HeldByOneBelowRoot == \A d \in Dirs \ {Root} : HeldByOne(d)

\* Depth of a node below the start directory, and of the deepest directory
\* (no walk goes deeper; the tree's own depth is at least that).
Depth(n) == Cardinality(Ancestors(n))

DirDepth == CHOOSE k \in 0 .. Cardinality(Nodes) :
              /\ \E d \in Dirs : Depth(d) = k
              /\ \A d \in Dirs : Depth(d) <= k

OpenHandles == {d \in Dirs : handle[d] = "open"}

\* Inline walk calls nested on task t: the frames above its first.
Nesting(t) == IF stack[t] = <<>> THEN 0 ELSE Len(stack[t]) - 1

\* C27: on every task each inline call walks a directory one level below its
\* caller's, so the nesting depth of inline calls never exceeds the depth of
\* the tree; and the Directory Handles open at the same time never number
\* more than the admission budget times (tree depth + 1).
C27_InlineDepthAndOpenHandlesBounded ==
  /\ \A t \in Dirs :
       /\ Nesting(t) <= DirDepth
       /\ \A k \in 1 .. Len(stack[t]) :
            /\ Depth(stack[t][k].dir) = Depth(t) + k - 1
            /\ k > 1 => Parent[stack[t][k].dir] = stack[t][k - 1].dir
  /\ Cardinality(OpenHandles) <= limit * (DirDepth + 1)

C27_Witness ==
  /\ limit = 1
  /\ Nesting(Root) = DirDepth
  /\ Cardinality(OpenHandles) = limit * (DirDepth + 1)
  /\ Cardinality(OpenHandles) < Cardinality(Dirs)

====
